---- MODULE Spec2Model ----
(***************************************************************************)
(* A model of applications/compare_reconstructions.cc of TheiaSfM: the     *)
(* program that loads two reconstructions, finds their common views,       *)
(* reports the rotation error after a rotation-only alignment, aligns      *)
(* reconstruction 2 to reconstruction 1 and reports rotation, position and *)
(* focal length errors.                                                    *)
(*                                                                         *)
(* Numbers.  A double is a fixed-point integer in thousandths (1.0 is      *)
(* 1000), so the bin edge 0.01 is 10 and 45 is 45000.  The result of 0.0/0.0 *)
(* is the string "nan".                                                    *)
(*                                                                         *)
(* Geometry.  Cameras live in a plane: an orientation is a number of       *)
(* quarter turns about the z axis (0..3), a position a pair of integers.   *)
(* A similarity transform is a number of quarter turns, an integer         *)
(* translation and an integer scale.                                       *)
(***************************************************************************)
EXTENDS Integers, Sequences, FiniteSets

\* ------------------------------------------------------------------ bounds
\* View names are 1 .. NumViewNames (compared as names, in this order).
NumViewNames == 3
\* Translations of a similarity transform lie in (-MaxShift..MaxShift)^2.
MaxShift == 1
ViewNames == 1 .. NumViewNames

VARIABLES
    pc,                              \* position in main
    FLAGS_robust_alignment_threshold,\* the gflag, in thousandths
    reconstruction1,                 \* [views: name -> camera, tracks: Seq(NumViews)]
    reconstruction2,
    loaded1,                         \* the reconstructions as ReadReconstruction left them
    loaded2,
    common_view_names,               \* main's local
    rotations1,                      \* EvaluateRotations' locals
    rotations2,
    rotation_error_degrees,
    rotation_errors_degrees,         \* EvaluateAlignedPoseError's locals
    position_errors,
    focal_length_errors,
    log,                             \* the LOG(INFO) messages, in order
    stat_calls,                      \* the arguments of each PrintMeanMedianHistogram call
    trace,                           \* the steps taken, in order
    faults                           \* undefined operations executed

vars == << pc, FLAGS_robust_alignment_threshold, reconstruction1, reconstruction2,
           loaded1, loaded2, common_view_names, rotations1, rotations2,
           rotation_error_degrees, rotation_errors_degrees, position_errors,
           focal_length_errors, log, stat_calls, trace, faults >>

\* ------------------------------------------------------------ arithmetic
\* A double with the value n.
Fx(n) == n * 1000

Abs(n) == IF n < 0 THEN -n ELSE n

RECURSIVE SqrtSearch(_, _, _)
SqrtSearch(n, lo, hi) ==
    IF lo >= hi THEN lo
    ELSE LET mid == (lo + hi + 1) \div 2
         IN  IF mid * mid <= n THEN SqrtSearch(n, mid, hi)
                               ELSE SqrtSearch(n, lo, mid - 1)

\* The norm of an integer vector <<x, y>>, in thousandths (rounded down).
Norm(v) == SqrtSearch((v[1] * v[1] + v[2] * v[2]) * 1000000, 0, 46000)

RECURSIVE SumSeq(_)
SumSeq(s) == IF s = << >> THEN 0 ELSE Head(s) + SumSeq(Tail(s))

RECURSIVE Insert(_, _)
Insert(x, s) ==
    IF s = << >> THEN << x >>
    ELSE IF x <= Head(s) THEN << x >> \o s
    ELSE << Head(s) >> \o Insert(x, Tail(s))

RECURSIVE SortAscending(_)
SortAscending(s) == IF s = << >> THEN << >> ELSE Insert(Head(s), SortAscending(Tail(s)))

\* Sort with the call left out: the vector stays in view order.
SortOmitted(s) == s

\* std::sort(v.begin(), v.end())
Sort(s) == SortAscending(s)

IsSorted(s) == \A i \in 1 .. Len(s) - 1 : s[i] <= s[i + 1]

\* The names of a set, as the ascending sequence.
RECURSIVE SeqOfSet(_)
SeqOfSet(S) ==
    IF S = {} THEN << >>
    ELSE LET m == CHOOSE x \in S : \A y \in S : x <= y
         IN  << m >> \o SeqOfSet(S \ {m})

\* ---------------------------------------------------------------- geometry
\* p turned by r quarter turns.
Rotate(p, r) ==
    CASE r % 4 = 0 -> p
      [] r % 4 = 1 -> << -p[2], p[1] >>
      [] r % 4 = 2 -> << -p[1], -p[2] >>
      [] r % 4 = 3 -> << p[2], -p[1] >>

\* The angle of the rotation taking orientation q1 to q2, in quarter turns: 0, 1 or 2.
RelativeQuarterTurns(q1, q2) ==
    LET d == (q2 - q1 + 4) % 4 IN IF d > 2 THEN 4 - d ELSE d

\* Quarter turns as radians: 0, pi/2, pi.
Radians(quarters) == CASE quarters = 0 -> 0 [] quarters = 1 -> 1571 [] quarters = 2 -> 3142

\* Quarter turns as degrees: 0, 90, 180.
Degrees(quarters) == Fx(90 * quarters)

\* Eigen::AngleAxisd(rotation1_mat.transpose() * rotation2_mat).angle()
AngularDifference(rotation1, rotation2) ==
    Radians(RelativeQuarterTurns(rotation1, rotation2))

Shifts == (0 - MaxShift) .. MaxShift

TransformSet == [rot : 0 .. 3, t : Shifts \X Shifts, scale : {1, 2}]

\* position' = scale * R * position + t
TransformPosition(T, p) ==
    LET q == Rotate(p, T.rot)
    IN  << T.scale * q[1] + T.t[1], T.scale * q[2] + T.t[2] >>

\* orientation' = R * orientation; the focal length is left alone.
TransformCamera(T, cam) ==
    [rot |-> (cam.rot + T.rot) % 4, pos |-> TransformPosition(T, cam.pos), focal |-> cam.focal]

TransformReconstruction(T, rec) ==
    [rec EXCEPT !.views = [n \in DOMAIN rec.views |-> TransformCamera(T, rec.views[n])]]

NumViews(rec) == Cardinality(DOMAIN rec.views)

NumTracks(rec) == Len(rec.tracks)

\* ------------------------------------------------------- library (theia)
EmptyReconstruction == [views |-> << >>, tracks |-> << >>]

\* theia::FindCommonViewsByName: the names held by both, in ascending order.
FindCommonViewsByName(rec1, rec2) ==
    SeqOfSet((DOMAIN rec1.views) \cap (DOMAIN rec2.views))

\* Total squared angular discrepancy of rots2 turned by R against rots1.
RECURSIVE RotationCost(_, _, _)
RotationCost(R, rots1, rots2) ==
    IF rots1 = << >> THEN 0
    ELSE LET q == RelativeQuarterTurns(Head(rots1), (Head(rots2) + R) % 4)
         IN  q * q + RotationCost(R, Tail(rots1), Tail(rots2))

\* theia::AlignRotations(rots1, &rots2): the values rots2 may hold afterwards,
\* one per global rotation of least total discrepancy.
AlignRotations(rots1, rots2) ==
    LET best == {R \in 0 .. 3 :
                   \A Q \in 0 .. 3 : RotationCost(R, rots1, rots2) <= RotationCost(Q, rots1, rots2)}
    IN  {[i \in 1 .. Len(rots2) |-> (rots2[i] + R) % 4] : R \in best}

\* Squared distance between view n of rec1 and view n of rec2 moved by T.
SquaredResidual(T, rec1, rec2, n) ==
    LET p == rec1.views[n].pos
        q == TransformPosition(T, rec2.views[n].pos)
    IN  (p[1] - q[1]) * (p[1] - q[1]) + (p[2] - q[2]) * (p[2] - q[2])

RECURSIVE TotalResidual(_, _, _, _)
TotalResidual(T, rec1, rec2, S) ==
    IF S = {} THEN 0
    ELSE LET n == CHOOSE x \in S : TRUE
         IN  SquaredResidual(T, rec1, rec2, n) + TotalResidual(T, rec1, rec2, S \ {n})

\* The least-squares similarity transforms over the views S.
LeastSquaresFits(rec1, rec2, S) ==
    LET cost == [T \in TransformSet |-> TotalResidual(T, rec1, rec2, S)]
        least == CHOOSE c \in {cost[T] : T \in TransformSet} :
                    \A T \in TransformSet : c <= cost[T]
    IN  {T \in TransformSet : cost[T] = least}

\* theia::AlignReconstructions(rec1, &rec2): the values rec2 may hold afterwards.
\* Fewer than 3 common views: degenerate, rec2 is left as it was.
AlignReconstructions(rec1, rec2) ==
    LET S == (DOMAIN rec1.views) \cap (DOMAIN rec2.views)
    IN  IF Cardinality(S) < 3 THEN {rec2}
        ELSE {TransformReconstruction(T, rec2) : T \in LeastSquaresFits(rec1, rec2, S)}

\* theia::AlignReconstructionsRobust(threshold, rec1, &rec2): every minimal sample
\* (3 views) gives candidate transforms; the candidate with most inliers (then least
\* total residual) is kept and refitted on its inliers.  No candidate with 3
\* inliers: rec2 is left as it was.
AlignReconstructionsRobust(threshold, rec1, rec2) ==
    LET S == (DOMAIN rec1.views) \cap (DOMAIN rec2.views)
        Samples == {M \in SUBSET S : Cardinality(M) = 3}
        Candidates == UNION {LeastSquaresFits(rec1, rec2, M) : M \in Samples}
        Inliers(T) == {n \in S :
                         SquaredResidual(T, rec1, rec2, n) * 1000000 < threshold * threshold}
        Good == {T \in Candidates : Cardinality(Inliers(T)) >= 3}
        Better(T, U) ==
            \/ Cardinality(Inliers(T)) > Cardinality(Inliers(U))
            \/ /\ Cardinality(Inliers(T)) = Cardinality(Inliers(U))
               /\ TotalResidual(T, rec1, rec2, S) <= TotalResidual(U, rec1, rec2, S)
        Best == {T \in Good : \A U \in Good : Better(T, U)}
    IN  IF Good = {} THEN {rec2}
        ELSE UNION {{TransformReconstruction(F, rec2) :
                        F \in LeastSquaresFits(rec1, rec2, Inliers(T))} : T \in Best}

\* theia::Histogram<T>: the counts of the values in [0,e1), [e1,e2), ..., [en,oo).
Histogram(values, bins) ==
    LET n == Len(bins)
        InBucket(v, i) ==
            /\ (i = 1 \/ v >= bins[i - 1])
            /\ (i = n + 1 \/ v < bins[i])
    IN  [i \in 1 .. n + 1 |-> Cardinality({k \in 1 .. Len(values) : InBucket(values[k], i)})]

\* ------------------------------------------------- the reconstruction files
\* The camera of view n in the ground-truth file.
GroundTruthCamera(n) == [rot |-> n % 4, pos |-> << n, (n * n) % 3 >>, focal |-> Fx(500)]

\* Track i of a reconstruction of k views is seen by i + 1 of them.
TracksOf(V) == [i \in 1 .. Cardinality(V) - 1 |-> i + 1]

\* The reconstructions a first file may hold.
Reconstructions1 ==
    {[views |-> [n \in V |-> GroundTruthCamera(n)], tracks |-> TracksOf(V)] :
        V \in SUBSET ViewNames}

\* The frames a second file may be expressed in.
Frames == [rot : 0 .. 3, t : {<< 0, 0 >>, << MaxShift, 0 >>}, scale : {1}]

\* The camera of view n in a second file: the ground truth seen in frame G; the
\* view `outlier` (0: none) is displaced, turned and has another focal length.
EstimatedCamera(G, outlier, n) ==
    LET c == TransformCamera(G, GroundTruthCamera(n))
    IN  IF n = outlier
        THEN [rot |-> (c.rot + 1) % 4,
              pos |-> << c.pos[1] + 3, c.pos[2] + 3 >>,
              focal |-> c.focal + Fx(50)]
        ELSE c

Reconstructions2 ==
    {[views |-> [n \in V |-> EstimatedCamera(G, outlier, n)], tracks |-> TracksOf(V)] :
        << V, G, outlier >> \in
            {x \in (SUBSET ViewNames) \X Frames \X (0 .. NumViewNames) :
                x[3] = 0 \/ x[3] \in x[1]}}

\* The values --robust_alignment_threshold may be given (default 0.0).
Thresholds == {Fx(0 - 1), Fx(0), Fx(2)}

\* ------------------------------------------------------------- the program
\* What a read outside a vector may return.
Garbage == {Fx(0), Fx(7)}

\* MedianIndex reading the lower of the two middle elements.
MedianIndexLower(size) == (size - 1) \div 2

\* sorted_errors.size() / 2, the (0-based) index PrintMeanMedianHistogram reads.
MedianIndex(size) == size \div 2

\* PrintMeanMedianHistogram on a vector that is not empty.
PrintMeanMedianHistogram(sorted_errors, histogram_bins) ==
    [mean |-> SumSeq(sorted_errors) \div Len(sorted_errors),
     median |-> sorted_errors[MedianIndex(Len(sorted_errors)) + 1],
     histogram |-> Histogram(sorted_errors, histogram_bins)]

\* A call of PrintMeanMedianHistogram and the LOG(INFO) of what it returns.  On an
\* empty vector line 66 divides by a zero count, and the call goes on to read
\* sorted_errors[0] outside the vector (ReadOutsideVector).
Report(tag, sorted_errors, histogram_bins, next) ==
    /\ stat_calls' = Append(stat_calls,
                            [tag |-> tag, sorted_errors |-> sorted_errors,
                             histogram_bins |-> histogram_bins, next |-> next])
    /\ trace' = Append(trace, tag)
    /\ \/ /\ Len(sorted_errors) > 0
          /\ log' = Append(log, [tag |-> tag,
                                 msg |-> PrintMeanMedianHistogram(sorted_errors, histogram_bins)])
          /\ faults' = faults
          /\ pc' = next
       \/ /\ Len(sorted_errors) = 0
          /\ log' = log
          /\ faults' = faults \cup {"divide_by_zero_count"}
          /\ pc' = "read_outside_vector"

RotationBins == << Fx(1), Fx(2), Fx(5), Fx(10), Fx(15), Fx(20), Fx(45) >>
PositionBins == << Fx(1), Fx(5), Fx(10), Fx(50), Fx(100), Fx(1000) >>
FocalLengthBins == << 10, 50, 200, 500, Fx(1), Fx(10), Fx(100) >>
TrackLengthBins == << 2, 3, 4, 5, 6, 7, 8, 9, 10, 15, 20, 25, 50 >>

Init ==
    /\ pc = "read1"
    /\ FLAGS_robust_alignment_threshold \in Thresholds
    /\ reconstruction1 = EmptyReconstruction
    /\ reconstruction2 = EmptyReconstruction
    /\ loaded1 = EmptyReconstruction
    /\ loaded2 = EmptyReconstruction
    /\ common_view_names = << >>
    /\ rotations1 = << >>
    /\ rotations2 = << >>
    /\ rotation_error_degrees = << >>
    /\ rotation_errors_degrees = << >>
    /\ position_errors = << >>
    /\ focal_length_errors = << >>
    /\ log = << >>
    /\ stat_calls = << >>
    /\ trace = << >>
    /\ faults = {}

\* main: CHECK(theia::ReadReconstruction(FLAGS_reconstruction1, ...))
ReadReconstruction1 ==
    /\ pc = "read1"
    /\ UNCHANGED << FLAGS_robust_alignment_threshold, reconstruction2, loaded2,
                    common_view_names, rotations1, rotations2, rotation_error_degrees,
                    rotation_errors_degrees, position_errors, focal_length_errors,
                    log, stat_calls, trace, faults >>
    /\ \/ \E r \in Reconstructions1 :
            /\ reconstruction1' = r
            /\ loaded1' = r
            /\ pc' = "read2"
       \/ /\ pc' = "check_failed"
          /\ UNCHANGED << reconstruction1, loaded1 >>

\* main: CHECK(theia::ReadReconstruction(FLAGS_reconstruction2, ...))
ReadReconstruction2 ==
    /\ pc = "read2"
    /\ UNCHANGED << FLAGS_robust_alignment_threshold, reconstruction1, loaded1,
                    common_view_names, rotations1, rotations2, rotation_error_degrees,
                    rotation_errors_degrees, position_errors, focal_length_errors,
                    log, stat_calls, trace, faults >>
    /\ \/ \E r \in Reconstructions2 :
            /\ reconstruction2' = r
            /\ loaded2' = r
            /\ pc' = "find"
       \/ /\ pc' = "check_failed"
          /\ UNCHANGED << reconstruction2, loaded2 >>

\* main from FindCommonViewsByName to the second LOG(INFO) of the counts, going on
\* at the step `next`.
FindCommonViewsThen(next) ==
    /\ pc = "find"
    /\ common_view_names' = FindCommonViewsByName(reconstruction1, reconstruction2)
    /\ log' = log \o
              << [tag |-> "Number of cameras",
                  msg |-> << NumViews(reconstruction1), NumViews(reconstruction2),
                             Len(common_view_names') >>],
                 [tag |-> "Number of 3d points",
                  msg |-> << NumTracks(reconstruction1), NumTracks(reconstruction2) >>] >>
    /\ trace' = Append(trace, "FindCommonViewsByName")
    /\ pc' = next
    /\ UNCHANGED << FLAGS_robust_alignment_threshold, reconstruction1, reconstruction2,
                    loaded1, loaded2, rotations1, rotations2, rotation_error_degrees,
                    rotation_errors_degrees, position_errors, focal_length_errors,
                    stat_calls, faults >>

\* FindCommonViews with the call of EvaluateRotations left out of main.
FindCommonViewsSkippingRotations == FindCommonViewsThen("align")

\* main: FindCommonViewsByName and the counts; EvaluateRotations is next.
FindCommonViews == FindCommonViewsThen("rotations")

\* The views of rec with the orientations rots, given in the order of names.
WithOrientations(rec, names, rots) ==
    [rec EXCEPT !.views = [n \in DOMAIN rec.views |->
        LET i == CHOOSE j \in 1 .. Len(names) + 1 : j = Len(names) + 1 \/ names[j] = n
        IN  IF i <= Len(names) THEN [rec.views[n] EXCEPT !.rot = rots[i]] ELSE rec.views[n]]]

\* EvaluateRotations up to the sort: gather the orientations, align the second
\* vector to the first, measure and sort the differences.  The vectors are the
\* function's own (in_place = FALSE); in_place = TRUE stores the aligned
\* orientations in reconstruction 2.
EvaluateRotationsAligning(in_place) ==
    /\ pc = "rotations"
    /\ rotations1' = [i \in 1 .. Len(common_view_names) |->
                        reconstruction1.views[common_view_names[i]].rot]
    /\ rotations2' \in AlignRotations(
                          rotations1',
                          [i \in 1 .. Len(common_view_names) |->
                              reconstruction2.views[common_view_names[i]].rot])
    /\ rotation_error_degrees' =
           Sort([i \in 1 .. Len(rotations1') |->
                    AngularDifference(rotations1'[i], rotations2'[i])])
    /\ trace' = Append(trace, "AlignRotations")
    /\ pc' = "rotations_print"
    /\ reconstruction2' = IF in_place
                          THEN WithOrientations(reconstruction2, common_view_names, rotations2')
                          ELSE reconstruction2
    /\ UNCHANGED << FLAGS_robust_alignment_threshold, reconstruction1,
                    loaded1, loaded2, common_view_names, rotation_errors_degrees,
                    position_errors, focal_length_errors, log, stat_calls, faults >>

\* EvaluateRotations aligning the orientations of reconstruction 2 where they are stored.
EvaluateRotationsAlignInPlace == EvaluateRotationsAligning(TRUE)

\* EvaluateRotations, lines 91 to 111.
EvaluateRotationsAlign == EvaluateRotationsAligning(FALSE)

\* EvaluateRotations: PrintMeanMedianHistogram(rotation_error_degrees, ...) and LOG.
EvaluateRotationsPrint ==
    /\ pc = "rotations_print"
    /\ Report("Rotation difference when aligning orientations",
              rotation_error_degrees, RotationBins, "align")
    /\ UNCHANGED << FLAGS_robust_alignment_threshold, reconstruction1, reconstruction2,
                    loaded1, loaded2, common_view_names, rotations1, rotations2,
                    rotation_error_degrees, rotation_errors_degrees, position_errors,
                    focal_length_errors >>

\* UseRobustAlignment with >= for >.
UseRobustAlignmentAtZero == FLAGS_robust_alignment_threshold >= 0

\* if (FLAGS_robust_alignment_threshold > 0.0)
UseRobustAlignment == FLAGS_robust_alignment_threshold > 0

\* AlignStep with the two reconstructions exchanged: reconstruction 1 is overwritten.
AlignStepExchanged ==
    /\ pc = "align"
    /\ \/ /\ UseRobustAlignment
          /\ reconstruction1' \in AlignReconstructionsRobust(
                 FLAGS_robust_alignment_threshold, reconstruction2, reconstruction1)
          /\ trace' = Append(trace, "AlignReconstructionsRobust")
       \/ /\ ~UseRobustAlignment
          /\ reconstruction1' \in AlignReconstructions(reconstruction2, reconstruction1)
          /\ trace' = Append(trace, "AlignReconstructions")
    /\ pc' = "errors"
    /\ UNCHANGED << FLAGS_robust_alignment_threshold, reconstruction2, loaded1, loaded2,
                    common_view_names, rotations1, rotations2, rotation_error_degrees,
                    rotation_errors_degrees, position_errors, focal_length_errors,
                    log, stat_calls, faults >>

\* EvaluateAlignedPoseError: the alignment of *reconstruction2 to reconstruction1.
AlignStep ==
    /\ pc = "align"
    /\ \/ /\ UseRobustAlignment
          /\ reconstruction2' \in AlignReconstructionsRobust(
                 FLAGS_robust_alignment_threshold, reconstruction1, reconstruction2)
          /\ trace' = Append(trace, "AlignReconstructionsRobust")
       \/ /\ ~UseRobustAlignment
          /\ reconstruction2' \in AlignReconstructions(reconstruction1, reconstruction2)
          /\ trace' = Append(trace, "AlignReconstructions")
    /\ pc' = "errors"
    /\ UNCHANGED << FLAGS_robust_alignment_threshold, reconstruction1, loaded1, loaded2,
                    common_view_names, rotations1, rotations2, rotation_error_degrees,
                    rotation_errors_degrees, position_errors, focal_length_errors,
                    log, stat_calls, faults >>

\* EvaluateAlignedPoseError: the three error vectors, filled and sorted.
ComputeErrors ==
    /\ pc = "errors"
    /\ LET n == Len(common_view_names)
           camera1(i) == reconstruction1.views[common_view_names[i]]
           camera2(i) == reconstruction2.views[common_view_names[i]]
       IN  /\ rotation_errors_degrees' =
                  Sort([i \in 1 .. n |-> AngularDifference(camera1(i).rot, camera2(i).rot)])
           /\ position_errors' =
                  Sort([i \in 1 .. n |->
                          Norm(<< camera1(i).pos[1] - camera2(i).pos[1],
                                  camera1(i).pos[2] - camera2(i).pos[2] >>)])
           /\ focal_length_errors' =
                  Sort([i \in 1 .. n |->
                          (Abs(camera1(i).focal - camera2(i).focal) * 1000)
                              \div camera1(i).focal])
    /\ trace' = Append(trace, "ComputeErrors")
    /\ pc' = "print_rotation"
    /\ UNCHANGED << FLAGS_robust_alignment_threshold, reconstruction1, reconstruction2,
                    loaded1, loaded2, common_view_names, rotations1, rotations2,
                    rotation_error_degrees, log, stat_calls, faults >>

UnchangedByReport ==
    UNCHANGED << FLAGS_robust_alignment_threshold, reconstruction1, reconstruction2,
                 loaded1, loaded2, common_view_names, rotations1, rotations2,
                 rotation_error_degrees, rotation_errors_degrees, position_errors,
                 focal_length_errors >>

\* EvaluateAlignedPoseError: the rotation report.
PrintRotation ==
    /\ pc = "print_rotation"
    /\ Report("Rotation difference when aligning positions",
              rotation_errors_degrees, RotationBins, "print_position")
    /\ UnchangedByReport

\* EvaluateAlignedPoseError: the position report.
PrintPosition ==
    /\ pc = "print_position"
    /\ Report("Position difference", position_errors, PositionBins, "print_focal")
    /\ UnchangedByReport

\* EvaluateAlignedPoseError: the focal length report; main then returns 0.
PrintFocalLength ==
    /\ pc = "print_focal"
    /\ Report("Focal length errors", focal_length_errors, FocalLengthBins, "done")
    /\ UnchangedByReport

\* PrintMeanMedianHistogram on an empty vector, line 70: the read of sorted_errors[0]
\* is undefined; it ends the process, or yields some value, which is logged as the
\* median beside the mean 0.0 / 0.
ReadOutsideVector ==
    /\ pc = "read_outside_vector"
    /\ faults' = faults \cup {"read_outside_vector"}
    /\ LET call == stat_calls[Len(stat_calls)]
       IN  \/ /\ pc' = "crashed"
              /\ log' = log
           \/ \E g \in Garbage :
                /\ log' = Append(log, [tag |-> call.tag,
                                       msg |-> [mean |-> "nan", median |-> g,
                                                histogram |-> Histogram(call.sorted_errors,
                                                                        call.histogram_bins)]])
                /\ pc' = call.next
    /\ UNCHANGED << stat_calls, trace >>
    /\ UnchangedByReport

\* ComputeTrackLengthHistogram(reconstruction): the message it logs.  main never
\* calls it, so no action uses it.
ComputeTrackLengthHistogram(reconstruction) ==
    [tag |-> "Track lengths", msg |-> Histogram(reconstruction.tracks, TrackLengthBins)]

Next ==
    \/ ReadReconstruction1
    \/ ReadReconstruction2
    \/ FindCommonViews
    \/ EvaluateRotationsAlign
    \/ EvaluateRotationsPrint
    \/ AlignStep
    \/ ComputeErrors
    \/ PrintRotation
    \/ PrintPosition
    \/ PrintFocalLength
    \/ ReadOutsideVector

Spec == Init /\ [][Next]_vars

\* ------------------------------------------------------------- properties
RotationOnlyTag == "Rotation difference when aligning orientations"
AlignedRotationTag == "Rotation difference when aligning positions"
PostAlignmentTags == {AlignedRotationTag, "Position difference", "Focal length errors"}
AlignerTags == {"AlignReconstructionsRobust", "AlignReconstructions"}

\* The places of the steps named in tags, in the run so far.
Places(tags) == {i \in 1 .. Len(trace) : trace[i] \in tags}

\* Every step named in later comes after some step named in earlier.
Precedes(earlier, later) == \A j \in Places(later) : \E i \in Places(earlier) : i < j

\* The k-th call of PrintMeanMedianHistogram returned and its message was logged
\* (the two messages of the counts come first in the log).
Logged(k) == k + 2 <= Len(log)
MessageOf(k) == log[k + 2].msg

\* C1: a call of PrintMeanMedianHistogram with an empty error vector reports a
\* degenerate input: the run never divides by a zero count, never reads an element
\* of the empty vector, and logs no statistics for that vector.
C1_EmptyVectorIsDegenerate ==
    \A k \in 1 .. Len(stat_calls) :
        stat_calls[k].sorted_errors = << >> => faults = {} /\ ~Logged(k)

\* C2: with fewer than 3 common views the post-alignment rotation, position and
\* focal length errors are neither computed nor reported.
C2_FewViewsNoMetrics ==
    (Places({"FindCommonViewsByName"}) # {} /\ Len(common_view_names) < 3)
        => /\ Places({"ComputeErrors"} \cup PostAlignmentTags) = {}
           /\ \A k \in 1 .. Len(log) : log[k].tag \notin PostAlignmentTags

\* C3: the steps of a run come in order: the common views are found first, the
\* rotation-only statistics are reported before either aligner runs, an aligner runs
\* before the post-alignment errors are computed, and the three post-alignment
\* statistics are reported only after the three error vectors are computed.
C3_StepOrder ==
    /\ trace # << >> => trace[1] = "FindCommonViewsByName"
    /\ Precedes({RotationOnlyTag}, AlignerTags)
    /\ Precedes(AlignerTags, {"ComputeErrors"})
    /\ Precedes({"ComputeErrors"}, PostAlignmentTags)

\* C3 witness: a run of three common views went through every step.
C3_Witness ==
    /\ pc = "done"
    /\ Len(common_view_names) >= 3
    /\ Len(trace) = 8

\* C4: a run that loaded both reconstructions and returned has reported the
\* track-length histogram of one of them.
C4_TrackLengthsReported ==
    pc = "done"
        => \E k \in 1 .. Len(log) :
              \/ log[k] = ComputeTrackLengthHistogram(reconstruction1)
              \/ log[k] = ComputeTrackLengthHistogram(reconstruction2)

C6_ModeByThreshold ==
    /\ Cardinality(Places(AlignerTags)) <= 1
    /\ pc = "done" => Cardinality(Places(AlignerTags)) = 1
    /\ FLAGS_robust_alignment_threshold > 0 => Places({"AlignReconstructions"}) = {}
    /\ FLAGS_robust_alignment_threshold = 0 => Places({"AlignReconstructionsRobust"}) = {}

\* C6 witness: a run with a positive threshold returned after the robust aligner
\* moved reconstruction 2.
C6_Witness ==
    /\ pc = "done"
    /\ FLAGS_robust_alignment_threshold > 0
    /\ Places({"AlignReconstructionsRobust"}) # {}
    /\ reconstruction2 # loaded2

\* C7 as stated: the reported median of a non-empty vector is its lower-middle
\* element: of n elements the ((n + 1) div 2)-th, the smaller of the two middle ones
\* when n is even.
C7_MedianIsLowerMiddle ==
    \A k \in 1 .. Len(stat_calls) :
        LET v == stat_calls[k].sorted_errors
        IN  (Logged(k) /\ Len(v) > 0) => MessageOf(k).median = v[(Len(v) + 1) \div 2]

\* C7 as amended: the reported median of a non-empty vector is the element at the
\* 0-based index size / 2, not interpolated: the single middle element when the
\* length is odd, the larger of the two middle elements when it is even.
C7_MedianIsUpperMiddle ==
    \A k \in 1 .. Len(stat_calls) :
        LET v == stat_calls[k].sorted_errors
            n == Len(v)
        IN  (Logged(k) /\ n > 0) => MessageOf(k).median = v[n \div 2 + 1]

\* C7 witness: a median was reported for a vector of even length whose two middle
\* elements differ.
C7_Witness ==
    \E k \in 1 .. Len(stat_calls) :
        LET v == stat_calls[k].sorted_errors
        IN  /\ Logged(k)
            /\ Len(v) = 2
            /\ v[1] < v[2]
            /\ MessageOf(k).median = v[2]

\* C8: every vector handed to PrintMeanMedianHistogram has one entry per common view
\* and is sorted ascending.
C8_VectorsSortedOnePerView ==
    \A k \in 1 .. Len(stat_calls) :
        /\ Len(stat_calls[k].sorted_errors) = Len(common_view_names)
        /\ IsSorted(stat_calls[k].sorted_errors)

\* C8 witness: all four vectors were handed over, one of them with distinct entries.
C8_Witness ==
    /\ Len(stat_calls) = 4
    /\ Len(common_view_names) >= 2
    /\ \E k \in 1 .. 4 :
          LET v == stat_calls[k].sorted_errors IN v[1] < v[Len(v)]

\* C9: the rotation errors handed to PrintMeanMedianHistogram are in degrees: each
\* is the angle between the two orientations, converted to degrees.
C9_RotationErrorsInDegrees ==
    \A k \in 1 .. Len(stat_calls) :
        /\ stat_calls[k].tag = RotationOnlyTag
              => stat_calls[k].sorted_errors =
                    Sort([i \in 1 .. Len(rotations1) |->
                            Degrees(RelativeQuarterTurns(rotations1[i], rotations2[i]))])
        /\ stat_calls[k].tag = AlignedRotationTag
              => stat_calls[k].sorted_errors =
                    Sort([i \in 1 .. Len(common_view_names) |->
                            Degrees(RelativeQuarterTurns(
                                reconstruction1.views[common_view_names[i]].rot,
                                reconstruction2.views[common_view_names[i]].rot))])

\* C10: the rotation-only stage works on copies: when EvaluateRotations has run, and
\* until an aligner runs, both reconstructions hold every view as loaded, so the
\* alignment starts from the loaded poses of reconstruction 2.
C10_RotationStageOnCopies ==
    (Places({"AlignRotations"}) # {} /\ Places(AlignerTags) = {})
        => /\ reconstruction1 = loaded1
           /\ reconstruction2 = loaded2

\* C10 witness: EvaluateRotations returned having turned its copy of the
\* orientations of reconstruction 2, and the aligner is about to run.
C10_Witness ==
    /\ pc = "align"
    /\ \E i \in 1 .. Len(common_view_names) :
          rotations2[i] # reconstruction2.views[common_view_names[i]].rot
    /\ reconstruction2 = loaded2

====
